---- MODULE Spec2Model ----
(***************************************************************************)
(* Model of the CHIANTI ingestion pipeline of fiasco:                      *)
(*   fiasco/io/generic.py                 GenericParser                    *)
(*   fiasco/io/sources/non_ion_sources.py AbundParser, IoneqParser,        *)
(*                                        IpParser                         *)
(*                                                                         *)
(* Two specifications share the variables:                                 *)
(*   Spec       the HDF5 store under sequences of to_hdf5 calls            *)
(*   SpecParse  one parser instance calling parse() on one source file     *)
(*                                                                         *)
(* Text is modelled as a sequence of atoms (a line is a sequence of        *)
(* tokens in which the whitespace tokens " " and "\n" are explicit), so    *)
(* that concatenation, strip() and split() are computed, not assumed.      *)
(***************************************************************************)
EXTENDS Integers, Sequences, FiniteSets, TLC

VARIABLES
    hf,        \* the HDF5 file handle: groups, datasets and their attributes
    hist,      \* the to_hdf5 calls made so far, in order
    parser,    \* the parser instance used by parse(): class, filename, decoder state
    file,      \* the lines of the source file at parser.full_path
    exists,    \* os.path.isfile(parser.full_path)
    results,   \* what each parse() call so far returned, in order
    calls      \* the preprocessor and postprocessor calls of the latest parse()

vars == <<hf, hist, parser, file, exists, results, calls>>

(***************************************************************************)
(* Bounds                                                                  *)
(***************************************************************************)
MaxWrites == 2
MaxParses == 2
MaxLines == 4

AtomicNumbers == {1, 2}
Ions == {1}
Values == {1, 2}
RowCounts == {1, 2}
Versions == {"8.0.2"}

None == "None"

(***************************************************************************)
(* Text helpers                                                            *)
(***************************************************************************)
RECURSIVE Join(_)
\* ''.join(pieces)
Join(pieces) ==
    IF pieces = <<>> THEN <<>> ELSE Head(pieces) \o Join(Tail(pieces))

\* seq[a:b] of Python, 0-based, as a sequence
Slice(seq, a, b) == SubSeq(seq, a + 1, b)

\* the number of positions at which block occurs in text
Occurrences(block, text) ==
    Cardinality({i \in 1..Len(text) :
        /\ i + Len(block) - 1 <= Len(text)
        /\ SubSeq(text, i, i + Len(block) - 1) = block})

Min(S) == CHOOSE x \in S : \A y \in S : x <= y

Last(seq) == seq[Len(seq)]

(***************************************************************************)
(* External lookups                                                        *)
(***************************************************************************)
\* periodictable.elements[Z].symbol
PeriodicSymbol == <<"H", "He", "Li", "Be">>

\* str.lower()
Lower(s) ==
    CASE s = "H" -> "h"
      [] s = "He" -> "he"
      [] s = "Li" -> "li"
      [] s = "Be" -> "be"
      [] OTHER -> s

\* '{}_{}'.format(el, ion)
IonName(el, ion) ==
    CASE el = "h" -> <<"h_1", "h_2", "h_3">>[ion]
      [] el = "he" -> <<"he_1", "he_2", "he_3">>[ion]
      [] el = "li" -> <<"li_1", "li_2", "li_3">>[ion]
      [] OTHER -> <<"be_1", "be_2", "be_3">>[ion]

\* os.path.splitext(os.path.basename(filename))[0]
Stem(filename) ==
    CASE filename = "sun_photospheric.abund" -> "sun_photospheric"
      [] filename = "sun_coronal.abund" -> "sun_coronal"
      [] filename = "chianti.ip" -> "chianti"
      [] filename = "legacy.ip" -> "legacy"
      [] filename = "chianti.ioneq" -> "chianti"
      [] filename = "arnaud_rothenflug.ioneq" -> "arnaud_rothenflug"
      [] OTHER -> filename

AbundFiles == {"sun_photospheric.abund", "sun_coronal.abund"}
IpFiles == {"chianti.ip", "legacy.ip"}
IoneqFiles == {"chianti.ioneq", "arnaud_rothenflug.ioneq"}

\* Unit.to_string() of the units the parser classes declare
UnitToString(unit) ==
    CASE unit = "dimensionless_unscaled" -> ""
      [] unit = "K" -> "K"
      [] unit = "1/cm" -> "1 / cm"
      [] OTHER -> unit

\* class attributes `units`, for the columns to_hdf5 persists
AbundUnit == "dimensionless_unscaled"
IoneqTemperatureUnit == "K"
IoneqFractionUnit == "dimensionless_unscaled"
IpUnit == "1/cm"

(***************************************************************************)
(* The HDF5 store                                                          *)
(*   grp : group path   -> attributes (attribute name -> value)            *)
(*   ds  : dataset path -> [data, attrs]                                   *)
(* A path is the sequence of its slash-separated components.               *)
(***************************************************************************)
NoAttrs == [a \in {} |-> <<>>]

EmptyStore == [grp |-> [p \in {} |-> NoAttrs], ds |-> [p \in {} |-> NoAttrs]]

\* `path in hf`
Has(s, path) == path \in DOMAIN s.grp \/ path \in DOMAIN s.ds

Prefixes(path) == {SubSeq(path, 1, n) : n \in 1..Len(path)}

Parent(path) == SubSeq(path, 1, Len(path) - 1)

\* hf.create_group(path): intermediate groups are created as needed
CreateGroup(s, path) ==
    [s EXCEPT !.grp =
        [p \in DOMAIN s.grp \cup Prefixes(path) |->
            IF p \in DOMAIN s.grp THEN s.grp[p] ELSE NoAttrs]]

\* hf[path].attrs[name] = value
SetGroupAttr(s, path, name, value) ==
    [s EXCEPT !.grp[path] =
        [a \in DOMAIN s.grp[path] \cup {name} |->
            IF a = name THEN value ELSE s.grp[path][a]]]

\* grp.create_dataset(name, data=data)
CreateDataset(s, path, data) ==
    [s EXCEPT !.ds =
        [p \in DOMAIN s.ds \cup {path} |->
            IF p = path THEN [data |-> data, attrs |-> NoAttrs] ELSE s.ds[p]]]

\* ds.attrs[name] = value
SetDatasetAttr(s, path, name, value) ==
    [s EXCEPT !.ds[path].attrs =
        [a \in DOMAIN s.ds[path].attrs \cup {name} |->
            IF a = name THEN value ELSE s.ds[path].attrs[a]]]

\* the labeled footer block of AbundParser.to_hdf5 and IpParser.to_hdf5
FooterBlock(dataset_name, footer) ==
    <<dataset_name, "\n------------------\n">> \o footer \o <<"\n        ">>

(***************************************************************************)
(* AbundParser.to_hdf5                                                     *)
(***************************************************************************)
AbundGroup(row) == <<Lower(row.element), "abundance">>

AbundWriteRow(s, dataset_name, footer, row) ==
    LET grp_name == AbundGroup(row)
        s1 == IF ~Has(s, grp_name)
              THEN SetGroupAttr(CreateGroup(s, grp_name), grp_name, "footer", <<>>)
              ELSE s
        s2 == SetGroupAttr(s1, grp_name, "footer", s1.grp[grp_name]["footer"] \o footer)
        ds_path == grp_name \o <<dataset_name>>
    IN  IF ~Has(s2, ds_path)
        THEN SetDatasetAttr(CreateDataset(s2, ds_path, row.abundance),
                            ds_path, "unit", UnitToString(AbundUnit))
        ELSE s2

RECURSIVE AbundWriteRows(_, _, _, _)
AbundWriteRows(s, dataset_name, footer, rows) ==
    IF rows = <<>> THEN s
    ELSE AbundWriteRows(AbundWriteRow(s, dataset_name, footer, Head(rows)),
                        dataset_name, footer, Tail(rows))

AbundToHdf5(s, p, df) ==
    LET dataset_name == Stem(p.filename)
        footer == FooterBlock(dataset_name, df.footer)
    IN  AbundWriteRows(s, dataset_name, footer, df.rows)

(***************************************************************************)
(* IpParser.to_hdf5                                                        *)
(***************************************************************************)
IonGroup(row, filetype) ==
    LET el == Lower(PeriodicSymbol[row.Z])
    IN  <<el, IonName(el, row.ion), filetype>>

IpWriteRow(s, dataset_name, footer, row) ==
    LET grp_name == IonGroup(row, "ip")
        s1 == IF ~Has(s, grp_name)
              THEN SetGroupAttr(CreateGroup(s, grp_name), grp_name, "footer", <<>>)
              ELSE s
        s2 == SetGroupAttr(s1, grp_name, "footer", s1.grp[grp_name]["footer"] \o footer)
        ds_path == grp_name \o <<dataset_name>>
    IN  IF ~Has(s2, ds_path)
        THEN SetDatasetAttr(CreateDataset(s2, ds_path, row.ip),
                            ds_path, "unit", UnitToString(IpUnit))
        ELSE s2

RECURSIVE IpWriteRows(_, _, _, _)
IpWriteRows(s, dataset_name, footer, rows) ==
    IF rows = <<>> THEN s
    ELSE IpWriteRows(IpWriteRow(s, dataset_name, footer, Head(rows)),
                     dataset_name, footer, Tail(rows))

IpToHdf5(s, p, df) ==
    LET dataset_name == Stem(p.filename)
        footer == FooterBlock(dataset_name, df.footer)
    IN  IpWriteRows(s, dataset_name, footer, df.rows)

(***************************************************************************)
(* IoneqParser.to_hdf5                                                     *)
(***************************************************************************)
IoneqWriteRow(s, dataset_name, footer, row) ==
    LET grp_name == IonGroup(row, "ioneq")
        s1 == IF ~Has(s, grp_name)
              THEN SetGroupAttr(CreateGroup(s, grp_name), grp_name, "footer", <<>>)
              ELSE s
        sub == grp_name \o <<dataset_name>>
        s2 == SetGroupAttr(CreateGroup(s1, sub), sub, "footer", footer)
        t == sub \o <<"temperature">>
        s3 == SetDatasetAttr(CreateDataset(s2, t, row.temperature),
                             t, "unit", UnitToString(IoneqTemperatureUnit))
        f == sub \o <<"ionization fraction">>
    IN  IF ~Has(s1, sub)
        THEN SetDatasetAttr(CreateDataset(s3, f, row.fraction),
                            f, "unit", UnitToString(IoneqFractionUnit))
        ELSE s1

RECURSIVE IoneqWriteRows(_, _, _, _)
IoneqWriteRows(s, dataset_name, footer, rows) ==
    IF rows = <<>> THEN s
    ELSE IoneqWriteRows(IoneqWriteRow(s, dataset_name, footer, Head(rows)),
                        dataset_name, footer, Tail(rows))

IoneqToHdf5(s, p, df) ==
    IoneqWriteRows(s, Stem(p.filename), df.footer, df.rows)

(***************************************************************************)
(* GenericParser.__init__ and GenericParser.to_hdf5                        *)
(***************************************************************************)
GenericFiles == {"h_1.elvlc", "he_1.elvlc"}

\* ion_filename.split('.')[0]
IonNameOf(ion_filename) ==
    CASE ion_filename = "h_1.elvlc" -> "h_1"
      [] ion_filename = "he_1.elvlc" -> "he_1"
      [] OTHER -> ion_filename

\* ion_name.split('_')[0]
ElementOf(ion_name) ==
    CASE ion_name = "h_1" -> "h"
      [] ion_name = "he_1" -> "he"
      [] OTHER -> ion_name

\* the `filetype` class attribute of the ion-file parser classes
GenericFiletype == "elvlc"

GenericInit(ion_filename) ==
    [ion_filename |-> ion_filename,
     ion_name |-> IonNameOf(ion_filename),
     element |-> ElementOf(IonNameOf(ion_filename)),
     filetype |-> GenericFiletype]

\* data.astype('|S{}'.format(numchar)) for '<U' data; the vlen float64
\* special dtype for object (ragged) data; data.dtype otherwise
StoredDtype(dtype) ==
    CASE dtype = "<U2" -> "|S2"
      [] dtype = "O" -> "vlen<f8"
      [] OTHER -> dtype

GenericUnitAttr(col) ==
    IF col.unit = None THEN "SKIP" ELSE UnitToString(col.unit)

\* a ds.attrs['unit'] assignment that skips unitless columns
GenericWriteColumnNoSentinel(s, grp_name, col) ==
    LET ds_path == grp_name \o <<col.name>>
        s1 == IF Has(s, ds_path)
              THEN s
              ELSE CreateDataset(s, ds_path,
                       [values |-> col.values, dtype |-> StoredDtype(col.dtype)])
    IN  IF col.unit = None THEN s1
        ELSE SetDatasetAttr(s1, ds_path, "unit", UnitToString(col.unit))

GenericWriteColumn(s, grp_name, col) ==
    LET ds_path == grp_name \o <<col.name>>
        s1 == IF Has(s, ds_path)
              THEN s
              ELSE CreateDataset(s, ds_path,
                       [values |-> col.values, dtype |-> StoredDtype(col.dtype)])
    IN  SetDatasetAttr(s1, ds_path, "unit", GenericUnitAttr(col))

RECURSIVE GenericWriteColumns(_, _, _)
GenericWriteColumns(s, grp_name, columns) ==
    IF columns = <<>> THEN s
    ELSE GenericWriteColumns(GenericWriteColumn(s, grp_name, Head(columns)),
                             grp_name, Tail(columns))

GenericToHdf5(s, p, df) ==
    LET grp_name == <<p.element, p.ion_name, p.filetype>>
        ion_grp == <<p.element, p.ion_name>>
        s1 == IF ~Has(s, grp_name)
              THEN SetGroupAttr(
                       SetGroupAttr(CreateGroup(s, grp_name), grp_name,
                                    "chianti_version", df.chianti_version),
                       grp_name, "footer", df.footer)
              ELSE s
        s2 == SetGroupAttr(SetGroupAttr(s1, ion_grp, "element", p.element),
                           ion_grp, "ion", p.ion_name)
    IN  GenericWriteColumns(s2, grp_name, df.columns)

(***************************************************************************)
(* The tables handed to to_hdf5                                            *)
(***************************************************************************)
\* rows are in file order; CHIANTI files list elements by atomic number, and
\* nothing stops a file from listing one element (or ion) twice
ZLists ==
    {zs \in UNION {[1..n -> AtomicNumbers] : n \in RowCounts} :
        \A i \in 1..(Len(zs) - 1) : zs[i] <= zs[i + 1]}

\* revision v of a source file: its data values and its comment block
FooterText(v) == <<"comment r1", "comment r2", "comment r3">>[v]

\* the grid every IoneqParser row shares (10.**grid of line 1)
TemperatureGrid == <<10^4, 10^5>>

AbundTables ==
    {[rows |-> [i \in 1..Len(zs) |->
                   [Z |-> zs[i], abundance |-> v, element |-> PeriodicSymbol[zs[i]]]],
      footer |-> <<FooterText(v)>>] : zs \in ZLists, v \in Values}

IpTables ==
    {[rows |-> [i \in 1..Len(zs) |-> [Z |-> zs[i], ion |-> n, ip |-> v]],
      footer |-> <<FooterText(v)>>] : zs \in ZLists, n \in Ions, v \in Values}

IoneqTables ==
    {[rows |-> [i \in 1..Len(zs) |->
                   [Z |-> zs[i], ion |-> n,
                    temperature |-> TemperatureGrid, fraction |-> <<v, v>>]],
      footer |-> <<FooterText(v)>>] : zs \in ZLists, n \in Ions, v \in Values}

\* column schemas of ion-file tables: (name, numpy dtype, unit)
GenericSchemas ==
    {<<[name |-> "level", dtype |-> "<i8", unit |-> None]>>,
     <<[name |-> "level", dtype |-> "<i8", unit |-> None],
       [name |-> "energy", dtype |-> "<f8", unit |-> "1/cm"]>>,
     <<[name |-> "energy", dtype |-> "<f8", unit |-> None]>>,
     <<[name |-> "config", dtype |-> "<U2", unit |-> None]>>,
     <<[name |-> "weights", dtype |-> "O", unit |-> None]>>}

GenericTables ==
    {[columns |-> [i \in 1..Len(sch) |->
                      [name |-> sch[i].name, dtype |-> sch[i].dtype,
                       unit |-> sch[i].unit, values |-> <<v>>]],
      footer |-> <<FooterText(v)>>,
      chianti_version |-> ver] : sch \in GenericSchemas, v \in Values, ver \in Versions}

(***************************************************************************)
(* Store specification: any sequence of to_hdf5 calls on one store         *)
(***************************************************************************)
NoCalls == [preprocessor |-> <<>>, postprocessor |-> 0]

ParseIdle ==
    /\ parser = [class |-> None, filename |-> None, state |-> None]
    /\ file = <<>>
    /\ exists = FALSE
    /\ results = <<>>
    /\ calls = NoCalls

Init ==
    /\ hf = EmptyStore
    /\ hist = <<>>
    /\ ParseIdle

Write(class, p, df, after) ==
    /\ Len(hist) < MaxWrites
    /\ hf' = after
    /\ hist' = Append(hist, [class |-> class, source |-> p, df |-> df])
    /\ UNCHANGED <<parser, file, exists, results, calls>>

AbundWrite ==
    \E f \in AbundFiles, df \in AbundTables :
        LET p == [filename |-> f] IN Write("abund", p, df, AbundToHdf5(hf, p, df))

IpWrite ==
    \E f \in IpFiles, df \in IpTables :
        LET p == [filename |-> f] IN Write("ip", p, df, IpToHdf5(hf, p, df))

IoneqWrite ==
    \E f \in IoneqFiles, df \in IoneqTables :
        LET p == [filename |-> f] IN Write("ioneq", p, df, IoneqToHdf5(hf, p, df))

GenericWrite ==
    \E f \in GenericFiles, df \in GenericTables :
        LET p == GenericInit(f) IN Write("generic", p, df, GenericToHdf5(hf, p, df))

Next == AbundWrite \/ IpWrite \/ IoneqWrite \/ GenericWrite

Spec == Init /\ [][Next]_vars

(***************************************************************************)
(* Source files, as GenericParser.parse reads them                         *)
(***************************************************************************)
Whitespace == {" ", "\n"}

\* the lines a source file is made of: the terminator (bare and padded), a
\* data line of three fields that holds -1 as a field, a data line of four
\* fields, and a comment line
Lines ==
    {<<"-1", "\n">>,
     <<" ", "-1", " ", "\n">>,
     <<" ", "1", " ", "1", " ", "-1", "\n">>,
     <<" ", "2", " ", "1", " ", "4", " ", "5", "\n">>,
     <<"%", " ", "comment", "\n">>}

SourceFiles == UNION {[1..n -> Lines] : n \in 1..MaxLines}

\* the VERSION file under chianti_dbase_root
VersionFile == <<<<"8.0.2", "\n">>>>

RECURSIVE LStrip(_)
LStrip(text) ==
    IF text # <<>> /\ Head(text) \in Whitespace THEN LStrip(Tail(text)) ELSE text

RECURSIVE RStrip(_)
RStrip(text) ==
    IF text # <<>> /\ text[Len(text)] \in Whitespace
    THEN RStrip(SubSeq(text, 1, Len(text) - 1))
    ELSE text

\* str.strip()
Strip(text) == RStrip(LStrip(text))

IsField(tok) == tok \notin Whitespace

\* str.split(): the whitespace-separated fields
Split(text) == SelectSeq(text, IsField)

Numerals == {"-1", "1", "2", "4", "5"}

\* int(token) / float(token) of a numeral
NumberOf(tok) ==
    CASE tok = "-1" -> -1
      [] tok = "1" -> 1
      [] tok = "2" -> 2
      [] tok = "4" -> 4
      [] OTHER -> 5

\* np.array([..., None], dtype=float) turns an unread field into nan
NaN == -999

\* a temperature grid left as read, in log10
Pow10Identity(x) == x

\* 10.**x
Pow10(x) == IF x = NaN THEN NaN ELSE 10^x

\* FortranRecordReader.read(line) for a format of n fields: the first n
\* fields of the line, an unread field where the line runs out
FortranRead(line, n) ==
    LET fields == Split(line)
    IN  [i \in 1..n |-> IF i <= Len(fields) THEN fields[i] ELSE None]

\* a field read under an I, F or E edit descriptor
ReadNumber(field) == IF field = None THEN NaN ELSE NumberOf(field)

Readable(fields) == \A i \in 1..Len(fields) : fields[i] \in Numerals \cup {None}

(***************************************************************************)
(* Parser classes                                                          *)
(***************************************************************************)
ParserClasses == {"ip", "ioneq"}

ParserFiles(class) == IF class = "ip" THEN {"chianti.ip"} ELSE {"chianti.ioneq"}

\* class attributes `headings`, `dtypes`, `units`
Headings(class) ==
    IF class = "ip"
    THEN <<"atomic number", "ion", "ionization potential">>
    ELSE <<"atomic number", "ion", "temperature", "ionization fraction">>

Dtypes(class) ==
    IF class = "ip" THEN <<"int", "int", "float">> ELSE <<"int", "int", "float", "float">>

Units(class) ==
    IF class = "ip"
    THEN <<None, None, IpUnit>>
    ELSE <<None, None, IoneqTemperatureUnit, IoneqFractionUnit>>

\* the decoder state IoneqParser keeps on the instance: fformat_temperature
\* and fformat_ioneq (both fixed by num_entries) and temperature; an
\* attribute not yet set is the empty sequence
NoState == [num_entries |-> <<>>, temperature |-> <<>>]

ParserInit(class, filename) == [class |-> class, filename |-> filename, state |-> NoState]

\* a grid appended to the one the instance already holds
SetTemperatureAppend(state, grid) ==
    [state EXCEPT !.temperature =
        IF state.temperature = <<>> THEN <<grid>> ELSE <<state.temperature[1] \o grid>>]

\* self.temperature = ...
SetTemperature(state, grid) == [state EXCEPT !.temperature = <<grid>>]

(***************************************************************************)
(* preprocessor: GenericParser.preprocessor (IpParser inherits it, and has *)
(* no fformat) and IoneqParser.preprocessor                                *)
(*   acc = [table, state, err, ...]                                        *)
(***************************************************************************)
DefaultPreprocessor(acc, line, index) ==
    [acc EXCEPT !.table = Append(acc.table, Split(Strip(line)))]

IoneqPreprocessor(acc, line, index) ==
    IF index = 0 THEN
        LET fields == Split(Strip(line))
        IN  IF fields = <<>> \/ Head(fields) \notin Numerals
            THEN [acc EXCEPT !.err = "ValueError"]
            ELSE [acc EXCEPT !.state.num_entries = <<NumberOf(Head(fields))>>]
    ELSE IF index = 1 THEN
        LET fields == FortranRead(line, acc.state.num_entries[1])
        IN  IF ~Readable(fields)
            THEN [acc EXCEPT !.err = "ValueError"]
            ELSE [acc EXCEPT !.state =
                      SetTemperature(acc.state,
                          [i \in 1..Len(fields) |-> Pow10(ReadNumber(fields[i]))])]
    ELSE
        LET n == acc.state.num_entries[1]
            fields == FortranRead(line, 2 + n)
        IN  IF ~Readable(fields)
            THEN [acc EXCEPT !.err = "ValueError"]
            ELSE [acc EXCEPT !.table = Append(acc.table,
                      <<ReadNumber(fields[1]), ReadNumber(fields[2]),
                        acc.state.temperature[1],
                        [i \in 1..n |-> ReadNumber(fields[2 + i])]>>)]

Preprocessor(class, acc, line, index) ==
    IF class = "ioneq"
    THEN IoneqPreprocessor(acc, line, index)
    ELSE DefaultPreprocessor(acc, line, index)

(***************************************************************************)
(* GenericParser.parse                                                     *)
(***************************************************************************)
\* line == '-1\n'
IsTerminatorUnstripped(line) == line = <<"-1", "\n">>

\* line.strip() == '-1'
IsTerminator(line) == Strip(line) = <<"-1">>

\* the for loop over enumerate(lines); i is the 1-based position, i - 1 the
\* index the code passes on.  `comment` is bound only when the loop breaks.
RECURSIVE ParseLoop(_, _, _, _)
ParseLoop(class, lines, i, acc) ==
    IF i > Len(lines) THEN acc
    ELSE IF IsTerminator(lines[i])
    THEN [acc EXCEPT !.comment = Join(Slice(lines, i, Len(lines))), !.bound = TRUE]
    ELSE LET logged == [acc EXCEPT !.calls = Append(acc.calls, <<lines[i], i - 1>>)]
             r == Preprocessor(class, logged, lines[i], i - 1)
         IN  IF r.err # None THEN r ELSE ParseLoop(class, lines, i + 1, r)

LoopStart(state) ==
    [table |-> <<>>, state |-> state, err |-> None,
     comment |-> <<>>, bound |-> FALSE, calls |-> <<>>]

\* list(map(list, zip(*table))): zip stops at the shortest row
NumColumns(table) ==
    IF table = <<>> THEN 0 ELSE Min({Len(table[r]) : r \in 1..Len(table)})

\* astype(dtype) of one value of a column: IpParser rows hold the fields as
\* strings, IoneqParser rows the numbers the Fortran reader returned
CastFails(class, dtype, value) ==
    IF class = "ioneq" THEN dtype = "int" /\ value = NaN ELSE value \notin Numerals

Cast(class, dtype, value) ==
    IF class = "ioneq" THEN value ELSE NumberOf(value)

\* QTable(data=..., names=self.headings) and the per-column astype raise:
\* QTable rejects a column count that differs from the number of names
\* (also the empty table, which has no columns), astype a field that is no
\* number
BuildFails(class, table) ==
    \/ NumColumns(table) # Len(Headings(class))
    \/ \E r \in 1..Len(table), c \in 1..Len(Headings(class)) :
           CastFails(class, Dtypes(class)[c], table[r][c])

BuildRows(class, table) ==
    [r \in 1..Len(table) |->
        [c \in 1..Len(Headings(class)) |-> Cast(class, Dtypes(class)[c], table[r][c])]]

\* IpParser.postprocessor / IoneqParser.postprocessor
Postprocessor(p, df) ==
    IF p.class = "ip"
    THEN [df EXCEPT !.meta = <<"ip_filename", p.filename>>]
    ELSE [df EXCEPT !.meta = <<"ioneq_filename", p.filename>>]

\* what parse() hands back: None, an exception, or the table
Outcome(status, error) ==
    [status |-> status, error |-> error, names |-> <<>>, rows |-> <<>>, units |-> <<>>,
     footer |-> <<>>, chianti_version |-> <<>>, meta |-> <<>>]

\* parse() once the file is known to exist
ReadFile(p, lines) ==
    LET loop == ParseLoop(p.class, lines, 1, LoopStart(p.state))
        failed(error) ==
            [returned |-> Outcome("error", error), state |-> loop.state,
             calls |-> loop.calls, postprocessed |-> 0]
    IN  IF loop.err # None THEN failed(loop.err)
        ELSE IF BuildFails(p.class, loop.table) THEN failed("ValueError")
        ELSE IF ~loop.bound THEN failed("UnboundLocalError")
        ELSE [returned |->
                 Postprocessor(p,
                     [Outcome("ok", None) EXCEPT
                         !.names = Headings(p.class),
                         !.rows = BuildRows(p.class, loop.table),
                         !.units = Units(p.class),
                         !.footer = loop.comment,
                         !.chianti_version = Strip(VersionFile[1])]),
              state |-> loop.state, calls |-> loop.calls, postprocessed |-> 1]

\* parse() without the isfile test: open() raises on a missing file
ParseNoIsfileCheck(p, lines, isfile) ==
    IF ~isfile
    THEN [returned |-> Outcome("error", "FileNotFoundError"), state |-> p.state,
          calls |-> <<>>, postprocessed |-> 0]
    ELSE ReadFile(p, lines)

\* parse(): None when full_path is no file
Parse(p, lines, isfile) ==
    IF ~isfile
    THEN [returned |-> Outcome("None", None), state |-> p.state,
          calls |-> <<>>, postprocessed |-> 0]
    ELSE ReadFile(p, lines)

(***************************************************************************)
(* Parse specification: one parser instance, one source file that may be   *)
(* absent or present, parse() called repeatedly                            *)
(***************************************************************************)
InitParse ==
    /\ hf = EmptyStore
    /\ hist = <<>>
    /\ \E class \in ParserClasses : \E f \in ParserFiles(class) :
           parser = ParserInit(class, f)
    /\ file \in SourceFiles
    /\ exists \in BOOLEAN
    /\ results = <<>>
    /\ calls = NoCalls

ParseCall ==
    /\ Len(results) < MaxParses
    /\ LET r == Parse(parser, file, exists)
       IN  /\ results' = Append(results, r.returned)
           /\ parser' = [parser EXCEPT !.state = r.state]
           /\ calls' = [preprocessor |-> r.calls, postprocessor |-> r.postprocessed]
    /\ UNCHANGED <<hf, hist, file, exists>>

ParseMissing == ~exists /\ ParseCall

ParseFile == exists /\ ParseCall

\* the file is removed from, or put back under, chianti_dbase_root
RemoveFile ==
    /\ exists
    /\ exists' = FALSE
    /\ UNCHANGED <<hf, hist, parser, file, results, calls>>

RestoreFile ==
    /\ ~exists
    /\ exists' = TRUE
    /\ UNCHANGED <<hf, hist, parser, file, results, calls>>

NextParse == ParseMissing \/ ParseFile \/ RemoveFile \/ RestoreFile

SpecParse == InitParse /\ [][NextParse]_vars

(***************************************************************************)
(* Properties of the store (specification Spec)                            *)
(***************************************************************************)
\* the group a row of an AbundParser or IpParser table is written to
RowGroup(class, row) == IF class = "abund" THEN AbundGroup(row) ELSE IonGroup(row, "ip")

RowValue(class, row) == IF class = "abund" THEN row.abundance ELSE row.ip

RowsInto(w, g) == {i \in 1..Len(w.df.rows) : RowGroup(w.class, w.df.rows[i]) = g}

TargetGroups(w) == {RowGroup(w.class, w.df.rows[i]) : i \in 1..Len(w.df.rows)}

BlockOf(w) == FooterBlock(Stem(w.source.filename), w.df.footer)

\* C1 (as claimed): after the same table is written twice in a row by
\* AbundParser or IpParser, every target group holds the source's dataset with
\* the first write's value and its footer holds the source's footer block
\* exactly once; after two equal GenericParser writes the group footer is the
\* table's footer, after two equal IoneqParser writes the footer of the
\* source's sub-group is the table's footer.
C1_IdempotentReingestion ==
    (Len(hist) = 2 /\ hist[1].class = hist[2].class /\ hist[1] = hist[2]) =>
        LET w == hist[1]
        IN  IF w.class \in {"abund", "ip"}
            THEN \A g \in TargetGroups(w) :
                    LET d == g \o <<Stem(w.source.filename)>>
                    IN  /\ d \in DOMAIN hf.ds
                        /\ hf.ds[d].data = RowValue(w.class, w.df.rows[Min(RowsInto(w, g))])
                        /\ Occurrences(BlockOf(w), hf.grp[g]["footer"]) = 1
            ELSE IF w.class = "generic"
            THEN hf.grp[<<w.source.element, w.source.ion_name, w.source.filetype>>]["footer"]
                     = w.df.footer
            ELSE \A i \in 1..Len(w.df.rows) :
                    hf.grp[IonGroup(w.df.rows[i], "ioneq")
                               \o <<Stem(w.source.filename)>>]["footer"] = w.df.footer

\* C2 (as claimed): a dataset that exists is left as it is by every later
\* write: neither its data nor any of its attributes changes.
C2_DatasetWriteOnce ==
    [][\A d \in DOMAIN hf.ds : d \in DOMAIN hf'.ds /\ hf'.ds[d] = hf.ds[d]]_vars

\* C3 (as claimed): after source A and then a different source B of the same
\* class (AbundParser or IpParser) are written to a new store, every group
\* both target has the footer  block(A) block(B).
C3_FooterIsAThenB ==
    (/\ Len(hist) = 2
     /\ hist[1].class \in {"abund", "ip"}
     /\ hist[1].class = hist[2].class
     /\ Stem(hist[1].source.filename) # Stem(hist[2].source.filename)) =>
        \A g \in TargetGroups(hist[1]) \cap TargetGroups(hist[2]) :
            hf.grp[g]["footer"] = BlockOf(hist[1]) \o BlockOf(hist[2])

\* C5 (as claimed): every group that holds a dataset carries both a
\* chianti_version and a footer attribute.
C5_GroupAttributesInitialised ==
    \A d \in DOMAIN hf.ds :
        /\ Parent(d) \in DOMAIN hf.grp
        /\ {"chianti_version", "footer"} \subseteq DOMAIN hf.grp[Parent(d)]

IonNames == {IonName(Lower(PeriodicSymbol[z]), n) : z \in AtomicNumbers, n \in Ions}

\* C6 (as claimed): every group element/element_ion of the store carries the
\* attributes element and ion.
C6_IonGroupsStamped ==
    \A g \in DOMAIN hf.grp :
        (Len(g) = 2 /\ g[2] \in IonNames) => {"element", "ion"} \subseteq DOMAIN hf.grp[g]

\* the unit of column `name` in the latest GenericParser write to group g
LatestGenericUnit(g, name) ==
    LET hits == {h \in (1..Len(hist)) \X (1..2) :
                    /\ hist[h[1]].class = "generic"
                    /\ <<hist[h[1]].source.element, hist[h[1]].source.ion_name,
                         hist[h[1]].source.filetype>> = g
                    /\ h[2] <= Len(hist[h[1]].df.columns)
                    /\ hist[h[1]].df.columns[h[2]].name = name}
        last == CHOOSE h \in hits : \A k \in hits : k[1] <= h[1]
    IN  hist[last[1]].df.columns[last[2]].unit

\* the unit string a dataset must carry
ExpectedUnit(d) ==
    IF d[Len(d) - 1] = "abundance" THEN ""
    ELSE IF d[Len(d) - 1] = "ip" THEN "1 / cm"
    ELSE IF Len(d) = 5 /\ d[3] = "ioneq"
    THEN (IF Last(d) = "temperature" THEN "K" ELSE "")
    ELSE LET unit == LatestGenericUnit(Parent(d), Last(d))
         IN  IF unit = None THEN "SKIP"
             ELSE IF unit = "1/cm" THEN "1 / cm" ELSE unit

\* C7: every dataset of the store carries a unit attribute: the string form
\* of the unit of the column written to it (for a GenericParser dataset, of the
\* column of the latest write that named it), and SKIP when that unit is None.
C7_UnitNeverAbsent ==
    \A d \in DOMAIN hf.ds :
        /\ "unit" \in DOMAIN hf.ds[d].attrs
        /\ hf.ds[d].attrs["unit"] = ExpectedUnit(d)

\* C7 witness: a store holding a unitless GenericParser dataset (SKIP), a
\* GenericParser dataset with a unit, and a dataset of a non-ion parser.
C7_Witness ==
    /\ \E d \in DOMAIN hf.ds : hf.ds[d].attrs["unit"] = "SKIP"
    /\ \E d \in DOMAIN hf.ds : d[3] = GenericFiletype /\ hf.ds[d].attrs["unit"] = "1 / cm"
    /\ \E d \in DOMAIN hf.ds : d[Len(d) - 1] \in {"abundance", "ip"}

(***************************************************************************)
(* Properties of parse() (specification SpecParse)                         *)
(***************************************************************************)
\* positions of the lines whose stripped content is -1
TerminatorLines == {k \in 1..Len(file) : Strip(file[k]) = <<"-1">>}

\* the lines before the first terminator (all lines when there is none)
DataLines ==
    IF TerminatorLines = {} THEN file ELSE SubSeq(file, 1, Min(TerminatorLines) - 1)

\* C4: when parse() has read the file, the preprocessor was called on lines
\* before the first terminator only, once each, in order, with the line's
\* index; when parse() returns a table every such line was passed and the
\* footer is the concatenation of all lines after the first terminator; and
\* when the file has no terminator parse() raises.
C4_TerminatorHandling ==
    (results # <<>> /\ Last(results).status # "None") =>
        LET last == Last(results)
            passed == calls.preprocessor
        IN  /\ Len(passed) <= Len(DataLines)
            /\ \A j \in 1..Len(passed) : passed[j] = <<DataLines[j], j - 1>>
            /\ last.status = "ok" =>
                   /\ Len(passed) = Len(DataLines)
                   /\ Len(last.rows) <= Len(DataLines)
                   /\ TerminatorLines # {}
                   /\ last.footer =
                          Join(SubSeq(file, Min(TerminatorLines) + 1, Len(file)))
            /\ TerminatorLines = {} => last.status = "error"

\* C4 witness: parse() returned a table for a file whose first terminator is
\* padded with blanks and is followed by a second terminator line, which
\* ends up in the footer.
C4_Witness ==
    /\ results # <<>>
    /\ Last(results).status = "ok"
    /\ Cardinality(TerminatorLines) = 2
    /\ file[Min(TerminatorLines)] = <<" ", "-1", " ", "\n">>
    /\ Last(results).footer = <<"-1", "\n">>
    /\ Len(calls.preprocessor) = 2

\* C8: a parse() call made while the file is missing returns None, calls
\* neither the preprocessor nor the postprocessor, and leaves the parser
\* instance and the store as they were.
C8_MissingSourceIsSkipped ==
    [][(~exists /\ Len(results') = Len(results) + 1) =>
          /\ Last(results').status = "None"
          /\ Last(results').rows = <<>>
          /\ calls' = NoCalls
          /\ parser' = parser
          /\ hf' = hf]_vars

\* C8 witness: parse() returned None on an instance that holds decoder state
\* from an earlier, successful parse of the file.
C8_Witness ==
    /\ Len(results) = 2
    /\ results[1].status = "ok"
    /\ results[2].status = "None"
    /\ parser.state.temperature # <<>>
    /\ ~exists

\* C9: any two parse() calls of one instance that read the (unchanged) file
\* return the same thing: the same table, names, units, footer and metadata.
C9_ParseDeterministic ==
    \A m \in 1..Len(results), n \in 1..Len(results) :
        (results[m].status # "None" /\ results[n].status # "None") =>
            results[m] = results[n]

\* C9 witness: an IoneqParser instance parsed the same file twice and got a
\* table with a row both times.
C9_Witness ==
    /\ parser.class = "ioneq"
    /\ Len(results) = 2
    /\ results[1].status = "ok"
    /\ results[2].status = "ok"
    /\ results[2].rows # <<>>

====
